---- MODULE Spec2Model ----
(***************************************************************************)
(* Model of mozc's SystemDictionaryBuilder                                 *)
(* (src/src/dictionary/system/system_dictionary_builder.cc).               *)
(*                                                                         *)
(* Strings are sequences of Unicode code points.  Byte-wise comparison of  *)
(* UTF-8 strings coincides with lexicographic comparison of their code     *)
(* point sequences, and Util::CharsLen is the length of the sequence.      *)
(* A Token pointer is the index of the token in the input vector.          *)
(***************************************************************************)
EXTENDS Integers, Sequences, FiniteSets, TLC

VARIABLES
  tokens,            \* argument of BuildFromTokens: the input vector of Token
  codec,             \* codec_ handed to the constructor
  pc,                \* position inside BuildFromTokens / WriteToStream
  key_info_list,     \* local KeyInfoList of BuildFromTokens
  frequent_pos_,     \* std::map<uint32_t, int> frequent_pos_
  value_trie,        \* value_trie_builder_
  key_trie,          \* key_trie_builder_
  token_array,       \* token_array_builder_
  sections           \* sections handed to file_codec_->WriteSections

vars == <<tokens, codec, pc, key_info_list, frequent_pos_, value_trie,
          key_trie, token_array, sections>>

(***************************************************************************)
(* Bounds and program constants                                            *)
(***************************************************************************)
\* longest input vector of the exhaustive specification
MaxTokens == 3

\* ABSL_FLAG min_key_length_to_use_small_cost_encoding, default value
min_key_length_to_use_small_cost_encoding == 6

\* largest number of frequent POS (the literal of the sizing loop)
MaxFrequentPos == 255

\* uint32_t frequent_pos_array[256]
FrequentPosArraySize == 256

(***************************************************************************)
(* Strings                                                                 *)
(***************************************************************************)
Min(a, b) == IF a < b THEN a ELSE b

\* a sequence, respectively a function, given by a rule, as the table of
\* its values (computed once)
AsSeq(s) == s \o <<>>
AsFcn(f) == f @@ <<>>

\* a is a proper or improper prefix of b up to position k
SamePrefix(a, b, k) == \A i \in 1..k : a[i] = b[i]

\* std::string operator< : lexicographic comparison
StrLess(a, b) ==
  \E k \in 0..Min(Len(a), Len(b)) :
     /\ SamePrefix(a, b, k)
     /\ \/ (k = Len(a) /\ k < Len(b))
        \/ (k < Len(a) /\ k < Len(b) /\ a[k + 1] < b[k + 1])

\* Util::HiraganaToKatakana: the hiragana block U+3041..U+3096 is shifted
\* by 0x60 onto the katakana block, every other character is kept.
HiraganaToKatakana(s) ==
  [i \in 1..Len(s) |-> IF s[i] >= 12353 /\ s[i] <= 12438 THEN s[i] + 96 ELSE s[i]]

\* Util::CharsLen: number of characters
CharsLen(s) == Len(s)

(***************************************************************************)
(* Codec (SystemDictionaryCodecInterface, injected by the constructor)     *)
(***************************************************************************)
\* "system": the production codec, an injective re-coding of characters.
\* "folding": a codec that encodes the two kana blocks alike (deterministic
\* but not injective, which the interface permits).
Codecs == {"system", "folding"}

EncodeChar(cd, c) ==
  IF c >= 12353 /\ c <= 12438 THEN c - 12353 + 1
  ELSE IF c >= 12449 /\ c <= 12534
       THEN (IF cd = "folding" THEN c - 12449 + 1 ELSE c - 12449 + 101)
       ELSE c + 1000

\* codec_->EncodeKey
EncodeKey(cd, s) == [i \in 1..Len(s) |-> EncodeChar(cd, s[i])]

\* codec_->EncodeValue
EncodeValue(cd, s) == [i \in 1..Len(s) |-> EncodeChar("system", s[i]) + 5000]

\* codec_->GetTokensTerminationFlag
TokensTerminationFlag == <<255>>

(***************************************************************************)
(* Token, TokenInfo, KeyInfo                                               *)
(***************************************************************************)
Tok(k, v, l, r, c, a) ==
  [key |-> k, value |-> v, lid |-> l, rid |-> r, cost |-> c, attributes |-> a]

\* TokenInfo(Token *): every field but the token at its default
TokenInfo(t) ==
  [token |-> t, id_in_value_trie |-> -1, id_in_frequent_pos_map |-> -1,
   cost_type |-> "DEFAULT_COST", pos_type |-> "DEFAULT_POS",
   value_type |-> "DEFAULT_VALUE"]

\* KeyInfo(): id_in_key_trie(-1)
KeyInfo(k, tis) == [key |-> k, id_in_key_trie |-> -1, tokens |-> tis]

\* GetCombinedPos: (lid << 16) | rid.  The ids of the model stay below 2^15,
\* where the shift neither wraps nor reaches the sign bit.
GetCombinedPos(lid, rid) == (lid * 65536) + rid

PosOf(toks, ti) == GetCombinedPos(toks[ti.token].lid, toks[ti.token].rid)

\* GetValueType
GetValueType(token) ==
  IF token.value = token.key THEN "AS_IS_HIRAGANA"
  ELSE IF token.value = HiraganaToKatakana(token.key) THEN "AS_IS_KATAKANA"
  ELSE "DEFAULT_VALUE"

(***************************************************************************)
(* ReadTokens                                                              *)
(***************************************************************************)
\* TokenPtrLessThan
TokenPtrLessThan(toks, lhs, rhs) == StrLess(toks[lhs].key, toks[rhs].key)

\* the keys of a buffer of tokens in ascending order
SortedKeys(toks, buf) ==
  LET ks == {toks[buf[i]].key : i \in 1..Len(buf)}
      rank == AsFcn([k \in ks |-> Cardinality({j \in ks : StrLess(j, k)})])
  IN  [p \in 1..Cardinality(ks) |-> CHOOSE k \in ks : rank[k] = p - 1]

\* std::stable_sort(reduce_buffer, TokenPtrLessThan): the comparator reads
\* the key alone, so the sorted buffer is, key after key in ascending
\* order, the elements with that key in the order they had.
RECURSIVE StableSortFrom(_, _, _, _)
StableSortFrom(toks, buf, ks, g) ==
  IF g > Len(ks) THEN <<>>
  ELSE SelectSeq(buf, LAMBDA t : toks[t].key = ks[g])
         \o StableSortFrom(toks, buf, ks, g + 1)

\* variant: a sort by key that is not stable (equal keys come out reversed)
StableSort_Unstable(toks, buf) ==
  StableSortFrom(toks, [i \in 1..Len(buf) |-> buf[Len(buf) + 1 - i]],
                 SortedKeys(toks, buf), 1)

StableSort(toks, buf) == StableSortFrom(toks, buf, SortedKeys(toks, buf), 1)

\* Step 2 of ReadTokens: a new KeyInfo starts at every element whose key
\* differs from the key of the element before it.
GroupStarts(toks, buf) ==
  {i \in 1..Len(buf) : i = 1 \/ toks[buf[i]].key # toks[buf[i - 1]].key}

GroupTokens(toks, buf) ==
  LET starts == GroupStarts(toks, buf)
      n == Cardinality(starts)
      rank == AsFcn([s \in starts |-> Cardinality({t \in starts : t < s})])
      first == AsSeq([g \in 1..n |-> CHOOSE s \in starts : rank[s] = g - 1])
      last == AsSeq([g \in 1..n |-> IF g = n THEN Len(buf) ELSE first[g + 1] - 1])
  IN  [g \in 1..n |->
         KeyInfo(toks[buf[first[g]]].key,
                 [k \in 1..(last[g] - first[g] + 1) |->
                    [TokenInfo(buf[first[g] + k - 1]) EXCEPT
                       !.value_type = GetValueType(toks[buf[first[g] + k - 1]])]])]

\* the CHECKs of step 1
InputAccepted(toks) ==
  \A i \in 1..Len(toks) : toks[i].key # <<>> /\ toks[i].value # <<>>

ReadTokensResult(toks) ==
  GroupTokens(toks, StableSort(toks, [i \in 1..Len(toks) |-> i]))

(***************************************************************************)
(* LoudsTrieBuilder                                                        *)
(***************************************************************************)
\* Order in which the trie numbers its words: level by level (shorter words
\* first), words of one level in lexicographic order.
LoudsLess(a, b) == Len(a) < Len(b) \/ (Len(a) = Len(b) /\ StrLess(a, b))

EmptyTrie == [added |-> {}, built |-> FALSE, ids |-> <<>>, log |-> <<>>]

\* Add(word) for every word of ws, in order
TrieAddAll(trie, ws) ==
  [trie EXCEPT !.added = @ \cup {ws[i] : i \in 1..Len(ws)},
               !.log = @ \o [i \in 1..Len(ws) |-> <<"Add", ws[i]>>]]

\* Build(): the distinct words get the dense ids 0..M-1
TrieBuild(trie) ==
  [trie EXCEPT !.built = TRUE,
               !.ids = [w \in trie.added |->
                          Cardinality({v \in trie.added : LoudsLess(v, w)})],
               !.log = Append(@, <<"Build">>)]

\* GetId(word): the id of an added word, -1 for any other word
GetId(trie, w) == IF w \in DOMAIN trie.ids THEN trie.ids[w] ELSE -1

\* the GetId calls for every word of ws, in order
TrieLogGetIds(trie, ws) ==
  [trie EXCEPT !.log = @ \o [i \in 1..Len(ws) |-> <<"GetId", ws[i]>>]]

(***************************************************************************)
(* BitVectorBasedArrayBuilder                                              *)
(***************************************************************************)
EmptyArray == [entries |-> <<>>, built |-> FALSE]

ArrayAddAll(arr, es) == [arr EXCEPT !.entries = @ \o es]

ArrayBuild(arr) == [arr EXCEPT !.built = TRUE]

(***************************************************************************)
(* Helpers over the KeyInfoList                                            *)
(***************************************************************************)
\* the TokenInfos of the whole list, KeyInfo after KeyInfo, as the nested
\* loops of the passes visit them
RECURSIVE AllTokenInfosFrom(_, _)
AllTokenInfosFrom(kil, g) ==
  IF g > Len(kil) THEN <<>> ELSE kil[g].tokens \o AllTokenInfosFrom(kil, g + 1)

AllTokenInfos(kil) == AllTokenInfosFrom(kil, 1)

(***************************************************************************)
(* BuildFrequentPos                                                        *)
(***************************************************************************)
INT_MAX == 2147483647

\* the two nested loops run pos_map[pos]++ for every TokenInfo of the list:
\* pos_map holds, for every combined POS that occurs, the number of tokens
\* with it
PosMap(toks, kil) ==
  LET tis == AllTokenInfos(kil)
      pos == AsSeq([i \in 1..Len(tis) |-> PosOf(toks, tis[i])])
  IN  [p \in {pos[i] : i \in 1..Len(tis)} |->
         Cardinality({i \in 1..Len(tis) : pos[i] = p})]

\* histogram: freq_map[multiplicity] = number of POS with that multiplicity
FreqMap(pos_map) ==
  [m \in {pos_map[p] : p \in DOMAIN pos_map} |->
     Cardinality({p \in DOMAIN pos_map : pos_map[p] = m})]

MaxOf(S) == CHOOSE x \in S : \A y \in S : y <= x

\* the loop over freq_map.rbegin()..rend(): rest holds the multiplicities
\* not visited yet; the loop breaks at the first bucket that does not fit
\* variant: the loop never breaks, every bucket is admitted
RECURSIVE ThresholdLoop_NoLimit(_, _, _, _)
ThresholdLoop_NoLimit(freq_map, rest, num_freq_pos, freq_threshold) ==
  IF rest = {} THEN [num_freq_pos |-> num_freq_pos, freq_threshold |-> freq_threshold]
  ELSE ThresholdLoop_NoLimit(freq_map, rest \ {MaxOf(rest)},
                             num_freq_pos + freq_map[MaxOf(rest)], MaxOf(rest))

\* variant: a bucket that does not fit is skipped and the loop goes on
RECURSIVE ThresholdLoop_Skipping(_, _, _, _)
ThresholdLoop_Skipping(freq_map, rest, num_freq_pos, freq_threshold) ==
  IF rest = {} THEN [num_freq_pos |-> num_freq_pos, freq_threshold |-> freq_threshold]
  ELSE LET kt == MaxOf(rest) IN
       IF num_freq_pos + freq_map[kt] > MaxFrequentPos
       THEN ThresholdLoop_Skipping(freq_map, rest \ {kt}, num_freq_pos, freq_threshold)
       ELSE ThresholdLoop_Skipping(freq_map, rest \ {kt}, num_freq_pos + freq_map[kt], kt)

RECURSIVE ThresholdLoop(_, _, _, _)
ThresholdLoop(freq_map, rest, num_freq_pos, freq_threshold) ==
  IF rest = {} THEN [num_freq_pos |-> num_freq_pos, freq_threshold |-> freq_threshold]
  ELSE LET kt == MaxOf(rest) IN
       IF num_freq_pos + freq_map[kt] > MaxFrequentPos
       THEN [num_freq_pos |-> num_freq_pos, freq_threshold |-> freq_threshold]
       ELSE ThresholdLoop(freq_map, rest \ {kt}, num_freq_pos + freq_map[kt], kt)

ComputeThreshold(pos_map) ==
  LET freq_map == FreqMap(pos_map)
  IN  ThresholdLoop(freq_map, DOMAIN freq_map, 0, INT_MAX)

\* the POS the selection loop admits
SelectedPos(pos_map, freq_threshold) ==
  {p \in DOMAIN pos_map : pos_map[p] >= freq_threshold}

\* variant: the ids are handed out in descending key order
AssignDenseIds_Descending(selected) ==
  [p \in selected |-> Cardinality({q \in selected : q > p})]

\* the selection loop walks pos_map in ascending key order and hands out
\* freq_pos_idx = 0, 1, 2, ...: a selected POS gets the number of selected
\* POS before it
AssignDenseIds(selected) ==
  [p \in selected |-> Cardinality({q \in selected : q < p})]

\* frequent_pos_[lt->first] = freq_pos_idx, on top of what the map holds
CollectFrequentPos(old, pos_map, freq_threshold) ==
  LET ids == AssignDenseIds(SelectedPos(pos_map, freq_threshold))
  IN  [p \in DOMAIN old \cup DOMAIN ids |-> IF p \in DOMAIN ids THEN ids[p] ELSE old[p]]

BuildFrequentPos ==
  /\ pc = "BuildFrequentPos"
  /\ LET pos_map == PosMap(tokens, key_info_list)
         sized == ComputeThreshold(pos_map)
         freq_pos_idx == Cardinality(SelectedPos(pos_map, sized.freq_threshold))
     IN  /\ frequent_pos_' = CollectFrequentPos(frequent_pos_, pos_map, sized.freq_threshold)
         /\ pc' = IF freq_pos_idx = sized.num_freq_pos THEN "BuildValueTrie" ELSE "aborted"
  /\ UNCHANGED <<tokens, codec, key_info_list, value_trie, key_trie,
                 token_array, sections>>

(***************************************************************************)
(* BuildValueTrie, BuildKeyTrie, SetIdForValue, SetIdForKey                *)
(***************************************************************************)
IsAsIs(ti) == ti.value_type = "AS_IS_HIRAGANA" \/ ti.value_type = "AS_IS_KATAKANA"

\* variant: the value of every token is added, AS_IS or not
ValueWordsToAdd_All(cd, toks, kil) ==
  LET all == AllTokenInfos(kil)
  IN  [i \in 1..Len(all) |-> EncodeValue(cd, toks[all[i].token].value)]

\* the words BuildValueTrie adds, in order
ValueWordsToAdd(cd, toks, kil) ==
  LET stored == SelectSeq(AllTokenInfos(kil), LAMBDA ti : ~IsAsIs(ti))
  IN  [i \in 1..Len(stored) |-> EncodeValue(cd, toks[stored[i].token].value)]

BuildValueTrie ==
  /\ pc = "BuildValueTrie"
  /\ value_trie' = TrieBuild(TrieAddAll(value_trie, ValueWordsToAdd(codec, tokens, key_info_list)))
  /\ pc' = "BuildKeyTrie"
  /\ UNCHANGED <<tokens, codec, key_info_list, frequent_pos_, key_trie,
                 token_array, sections>>

KeyWordsToAdd(cd, kil) == [g \in 1..Len(kil) |-> EncodeKey(cd, kil[g].key)]

BuildKeyTrie ==
  /\ pc = "BuildKeyTrie"
  /\ key_trie' = TrieBuild(TrieAddAll(key_trie, KeyWordsToAdd(codec, key_info_list)))
  /\ pc' = "SetIdForValue"
  /\ UNCHANGED <<tokens, codec, key_info_list, frequent_pos_, value_trie,
                 token_array, sections>>

\* the words SetIdForValue looks up, in order: one per TokenInfo
ValueWordsToLookUp(cd, toks, kil) ==
  LET all == AllTokenInfos(kil)
  IN  [i \in 1..Len(all) |-> EncodeValue(cd, toks[all[i].token].value)]

SetIdForValueOf(cd, toks, trie, ti) ==
  [ti EXCEPT !.id_in_value_trie = GetId(trie, EncodeValue(cd, toks[ti.token].value))]

SetIdForValueResult(cd, toks, trie, kil) ==
  [g \in 1..Len(kil) |->
     [kil[g] EXCEPT !.tokens =
        [i \in 1..Len(kil[g].tokens) |-> SetIdForValueOf(cd, toks, trie, kil[g].tokens[i])]]]

SetIdForValue ==
  /\ pc = "SetIdForValue"
  /\ key_info_list' = SetIdForValueResult(codec, tokens, value_trie, key_info_list)
  /\ value_trie' = TrieLogGetIds(value_trie, ValueWordsToLookUp(codec, tokens, key_info_list))
  /\ pc' = "SetIdForKey"
  /\ UNCHANGED <<tokens, codec, frequent_pos_, key_trie, token_array, sections>>

SetIdForKeyResult(cd, trie, kil) ==
  [g \in 1..Len(kil) |->
     [kil[g] EXCEPT !.id_in_key_trie = GetId(trie, EncodeKey(cd, kil[g].key))]]

SetIdForKey ==
  /\ pc = "SetIdForKey"
  /\ key_info_list' = SetIdForKeyResult(codec, key_trie, key_info_list)
  /\ key_trie' = TrieLogGetIds(key_trie, KeyWordsToAdd(codec, key_info_list))
  /\ pc' = "SortTokenInfo"
  /\ UNCHANGED <<tokens, codec, frequent_pos_, value_trie, token_array, sections>>

(***************************************************************************)
(* SortTokenInfo                                                           *)
(***************************************************************************)
\* variant: the value ids are compared the other way round
TokenGreaterThan_ValueDescending(toks, lhs, rhs) ==
  IF toks[lhs.token].lid # toks[rhs.token].lid
  THEN toks[lhs.token].lid > toks[rhs.token].lid
  ELSE IF toks[lhs.token].rid # toks[rhs.token].rid
  THEN toks[lhs.token].rid > toks[rhs.token].rid
  ELSE IF lhs.id_in_value_trie # rhs.id_in_value_trie
  THEN lhs.id_in_value_trie > rhs.id_in_value_trie
  ELSE toks[lhs.token].attributes < toks[rhs.token].attributes

\* TokenGreaterThan::operator()
TokenGreaterThan(toks, lhs, rhs) ==
  IF toks[lhs.token].lid # toks[rhs.token].lid
  THEN toks[lhs.token].lid > toks[rhs.token].lid
  ELSE IF toks[lhs.token].rid # toks[rhs.token].rid
  THEN toks[lhs.token].rid > toks[rhs.token].rid
  ELSE IF lhs.id_in_value_trie # rhs.id_in_value_trie
  THEN lhs.id_in_value_trie < rhs.id_in_value_trie
  ELSE toks[lhs.token].attributes < toks[rhs.token].attributes

\* no element is ordered strictly before an element that precedes it
IsSortedBy(toks, tis) ==
  \A i \in 1..(Len(tis) - 1) : ~TokenGreaterThan(toks, tis[i + 1], tis[i])

\* std::sort(tokens.begin(), tokens.end(), TokenGreaterThan()): some
\* permutation of the range that is sorted by the comparator.  std::sort is
\* not stable, so elements the comparator does not separate may come out in
\* any order; when the comparator separates all elements the result is the
\* one sorted permutation, each element at the position given by the number
\* of elements ordered before it.
SortOutcomes(toks, tis) ==
  LET n == Len(tis)
      before == AsSeq([i \in 1..n |->
                   Cardinality({j \in 1..n : TokenGreaterThan(toks, tis[j], tis[i])})])
  IN  IF Cardinality({before[i] : i \in 1..n}) = n
      THEN {[p \in 1..n |-> tis[CHOOSE i \in 1..n : before[i] = p - 1]]}
      ELSE {s \in {[p \in 1..n |-> tis[f[p]]] : f \in Permutations(1..n)} :
              IsSortedBy(toks, s)}

\* the outcomes of the loop of SortTokenInfo over the KeyInfos from g on
RECURSIVE SortTokenInfoFrom(_, _, _)
SortTokenInfoFrom(toks, kil, g) ==
  IF g > Len(kil) THEN {<<>>}
  ELSE {<<[kil[g] EXCEPT !.tokens = s]>> \o rest :
          s \in SortOutcomes(toks, kil[g].tokens),
          rest \in SortTokenInfoFrom(toks, kil, g + 1)}

SortTokenInfo ==
  /\ pc = "SortTokenInfo"
  /\ key_info_list' \in SortTokenInfoFrom(tokens, key_info_list, 1)
  /\ pc' = "SetCostType"
  /\ UNCHANGED <<tokens, codec, frequent_pos_, value_trie, key_trie,
                 token_array, sections>>

(***************************************************************************)
(* SetCostType, SetPosType, SetValueType                                   *)
(***************************************************************************)
\* variant: homonyms are never found
HasHomonymsInSamePos_Never(toks, key_info) == FALSE

\* HasHomonymsInSamePos: the insertion of a combined POS into the set of
\* seen ones fails for some token
HasHomonymsInSamePos(toks, key_info) ==
  IF Len(key_info.tokens) = 1 THEN FALSE
  ELSE \E i \in 1..Len(key_info.tokens) :
         \E j \in 1..(i - 1) :
            PosOf(toks, key_info.tokens[j]) = PosOf(toks, key_info.tokens[i])

\* the body of the inner loop of SetCostType
SetCostTypeOf(toks, ti) ==
  IF CharsLen(toks[ti.token].key) >= min_key_length_to_use_small_cost_encoding
  THEN [ti EXCEPT !.cost_type = "CAN_USE_SMALL_ENCODING"]
  ELSE ti

\* a KeyInfo with homonyms is skipped (continue)
SetCostTypeResult(toks, kil) ==
  [g \in 1..Len(kil) |->
     IF HasHomonymsInSamePos(toks, kil[g]) THEN kil[g]
     ELSE [kil[g] EXCEPT !.tokens =
             [i \in 1..Len(kil[g].tokens) |-> SetCostTypeOf(toks, kil[g].tokens[i])]]]

SetCostType ==
  /\ pc = "SetCostType"
  /\ key_info_list' = SetCostTypeResult(tokens, key_info_list)
  /\ pc' = "SetPosType"
  /\ UNCHANGED <<tokens, codec, frequent_pos_, value_trie, key_trie,
                 token_array, sections>>

\* variant: FREQUENT_POS is not overwritten by SAME_AS_PREV_POS
SetPosTypeOf_FrequentWins(toks, fp, ki, i) ==
  LET pos == PosOf(toks, ki.tokens[i])
  IN  IF pos \in DOMAIN fp
      THEN [ki.tokens[i] EXCEPT !.pos_type = "FREQUENT_POS",
                                !.id_in_frequent_pos_map = fp[pos]]
      ELSE IF i >= 2 /\ PosOf(toks, ki.tokens[i - 1]) = pos
           THEN [ki.tokens[i] EXCEPT !.pos_type = "SAME_AS_PREV_POS"]
           ELSE ki.tokens[i]

SetPosTypeOf(toks, fp, ki, i) ==
  LET pos == PosOf(toks, ki.tokens[i])
      found == IF pos \in DOMAIN fp
               THEN [ki.tokens[i] EXCEPT !.pos_type = "FREQUENT_POS",
                                         !.id_in_frequent_pos_map = fp[pos]]
               ELSE ki.tokens[i]
  IN  IF i >= 2 /\ PosOf(toks, ki.tokens[i - 1]) = pos
      THEN [found EXCEPT !.pos_type = "SAME_AS_PREV_POS"]
      ELSE found

SetPosTypeResult(toks, fp, kil) ==
  [g \in 1..Len(kil) |->
     [kil[g] EXCEPT !.tokens =
        [i \in 1..Len(kil[g].tokens) |-> SetPosTypeOf(toks, fp, kil[g], i)]]]

SetPosType ==
  /\ pc = "SetPosType"
  /\ key_info_list' = SetPosTypeResult(tokens, frequent_pos_, key_info_list)
  /\ pc' = "SetValueType"
  /\ UNCHANGED <<tokens, codec, frequent_pos_, value_trie, key_trie,
                 token_array, sections>>

\* variant: the AS_IS guard is missing
SetValueTypeOf_NoGuard(toks, ki, i) ==
  IF i >= 2 /\ toks[ki.tokens[i].token].value = toks[ki.tokens[i - 1].token].value
  THEN [ki.tokens[i] EXCEPT !.value_type = "SAME_AS_PREV_VALUE"]
  ELSE ki.tokens[i]

\* the loop starts at the second TokenInfo and reads the token values and
\* the TokenInfo's own value_type only
SetValueTypeOf(toks, ki, i) ==
  IF /\ i >= 2
     /\ ki.tokens[i].value_type # "AS_IS_HIRAGANA"
     /\ ki.tokens[i].value_type # "AS_IS_KATAKANA"
     /\ toks[ki.tokens[i].token].value = toks[ki.tokens[i - 1].token].value
  THEN [ki.tokens[i] EXCEPT !.value_type = "SAME_AS_PREV_VALUE"]
  ELSE ki.tokens[i]

SetValueTypeResult(toks, kil) ==
  [g \in 1..Len(kil) |->
     [kil[g] EXCEPT !.tokens =
        [i \in 1..Len(kil[g].tokens) |-> SetValueTypeOf(toks, kil[g], i)]]]

SetValueType ==
  /\ pc = "SetValueType"
  /\ key_info_list' = SetValueTypeResult(tokens, key_info_list)
  /\ pc' = "BuildTokenArray"
  /\ UNCHANGED <<tokens, codec, frequent_pos_, value_trie, key_trie,
                 token_array, sections>>

(***************************************************************************)
(* BuildTokenArray                                                         *)
(***************************************************************************)
\* codec_->EncodeTokens: what the token codec writes for one TokenInfo list.
\* The POS is written as a back reference, as the dense id or in full; the
\* value as a flag or as the id in the value trie.
EncodeToken(toks, ti) ==
  [pos |-> IF ti.pos_type = "SAME_AS_PREV_POS" THEN <<"same">>
           ELSE IF ti.pos_type = "FREQUENT_POS"
                THEN <<"frequent", ti.id_in_frequent_pos_map>>
                ELSE <<"full", toks[ti.token].lid, toks[ti.token].rid>>,
   value |-> IF ti.value_type = "DEFAULT_VALUE"
             THEN <<"id", ti.id_in_value_trie>> ELSE <<ti.value_type>>,
   cost |-> <<ti.cost_type, toks[ti.token].cost>>,
   attributes |-> toks[ti.token].attributes]

EncodeTokens(toks, tis) == [i \in 1..Len(tis) |-> EncodeToken(toks, tis[i])]

\* the ids can index a table of kil.size() slots
IdsInRange(kil) ==
  \A g \in 1..Len(kil) : kil[g].id_in_key_trie >= 0 /\ kil[g].id_in_key_trie < Len(kil)

\* variant: the table keeps the order of the list
IdToKeyInfoTable_ListOrder(kil) == [id \in 0..(Len(kil) - 1) |-> id + 1]

\* id_to_keyinfo_table after the first loop: slot id holds the last KeyInfo
\* with that id (its index in the list), 0 stands for the null pointer
IdToKeyInfoTable(kil) ==
  [id \in 0..(Len(kil) - 1) |->
     LET S == {g \in 1..Len(kil) : kil[g].id_in_key_trie = id}
     IN  IF S = {} THEN 0 ELSE MaxOf(S)]

\* number of leading slots that are filled
FilledPrefix(table) ==
  LET empty == {id \in DOMAIN table : table[id] = 0}
  IN  IF empty = {} THEN Cardinality(DOMAIN table)
      ELSE CHOOSE id \in empty : \A other \in empty : id <= other

\* the entries of the second loop for slots 0..n-1
TableEntries(toks, kil, table, n) ==
  [i \in 1..n |-> IF table[i - 1] = 0 THEN <<"garbage">>
                  ELSE EncodeTokens(toks, kil[table[i - 1]].tokens)]

\* An id outside the table makes the first loop write out of bounds, an
\* unfilled slot makes the second loop dereference a null pointer; both are
\* undefined behaviour: the process dies at that point, or runs on with
\* whatever the pointer happens to give.
UndefinedOutcomes == {"dies", "runs on"}

BuildTokenArray ==
  /\ pc = "BuildTokenArray"
  /\ LET n == Len(key_info_list)
         table == AsFcn(IdToKeyInfoTable(key_info_list))
         all == AsSeq(TableEntries(tokens, key_info_list, table, n))
     IN  IF IdsInRange(key_info_list) /\ FilledPrefix(table) = n
         THEN /\ token_array' = ArrayBuild(ArrayAddAll(token_array,
                                   Append(all, TokensTerminationFlag)))
              /\ pc' = "done"
         ELSE \E outcome \in UndefinedOutcomes :
                IF outcome = "dies"
                THEN /\ token_array' =
                          IF IdsInRange(key_info_list)
                          THEN ArrayAddAll(token_array,
                                 SubSeq(all, 1, FilledPrefix(table)))
                          ELSE token_array
                     /\ pc' = "crashed"
                ELSE /\ token_array' = ArrayBuild(ArrayAddAll(token_array,
                                          Append(all, TokensTerminationFlag)))
                     /\ pc' = "done"
  /\ UNCHANGED <<tokens, codec, key_info_list, frequent_pos_, value_trie,
                 key_trie, sections>>

(***************************************************************************)
(* WriteToStream                                                           *)
(***************************************************************************)
\* uint32_t frequent_pos_array[256] = {0}, then array[i->second] = i->first
\* for every entry of frequent_pos_; slot d of the array is element d + 1
FrequentPosArray(fp) ==
  [d \in 1..FrequentPosArraySize |->
     IF \E p \in DOMAIN fp : fp[p] = d - 1
     THEN CHOOSE p \in DOMAIN fp : fp[p] = d - 1
     ELSE 0]

WriteToStream ==
  /\ pc = "done"
  /\ sections' = << [name |-> "value", image |-> value_trie.ids],
                    [name |-> "key", image |-> key_trie.ids],
                    [name |-> "tokens", image |-> token_array.entries],
                    [name |-> "pos", image |-> FrequentPosArray(frequent_pos_)] >>
  /\ pc' = "written"
  /\ UNCHANGED <<tokens, codec, key_info_list, frequent_pos_, value_trie,
                 key_trie, token_array>>

(***************************************************************************)
(* Inputs of the exhaustive specification                                  *)
(***************************************************************************)
HA == <<12354>>                       \* hiragana a
KA == <<12450>>                       \* katakana a
HAKA == <<12354, 12363>>              \* hiragana a, ka
HKA == <<12363>>                      \* hiragana ka
TREE == <<26408>>                     \* a kanji
ABCDEF == <<97, 98, 99, 100, 101, 102>>
XX == <<88>>
YY == <<89>>

TokenUniverse ==
  { Tok(HA, HA, 1, 1, 0, 0),
    Tok(HA, KA, 1, 1, 0, 0),
    Tok(HA, TREE, 1, 1, 100, 0),
    Tok(HA, TREE, 1, 1, 200, 0),
    Tok(HA, TREE, 1, 1, 100, 1),
    Tok(HA, XX, 1, 2, 0, 0),
    Tok(HAKA, TREE, 2, 1, 0, 0),
    Tok(HKA, XX, 1, 1, 0, 0),
    Tok(KA, TREE, 1, 2, 0, 0),
    Tok(ABCDEF, XX, 5, 5, 0, 0),
    Tok(ABCDEF, YY, 5, 5, 0, 0),
    Tok(ABCDEF, XX, 5, 6, 0, 1),
    Tok(HA, <<>>, 1, 1, 0, 0) }

SeqsUpTo(S, n) == UNION {[1..m -> S] : m \in 0..n}

(***************************************************************************)
(* Inputs with many parts of speech                                        *)
(***************************************************************************)
\* A scenario is up to three groups of parts of speech: c1 POS that occur
\* m1 times each, c2 POS that occur m2 times each, c3 POS that occur m3
\* times each, spread over nk keys.
Scn(c1, m1, c2, m2, c3, m3, nk) ==
  [c1 |-> c1, m1 |-> m1, c2 |-> c2, m2 |-> m2, c3 |-> c3, m3 |-> m3, nk |-> nk]

Scenarios ==
  { Scn(1, 3, 254, 1, 0, 0, 4),      \* 255 POS in all
    Scn(1, 3, 255, 1, 0, 0, 4),      \* the lowest bucket does not fit
    Scn(255, 1, 0, 0, 0, 0, 4),      \* one bucket of 255
    Scn(256, 1, 0, 0, 0, 0, 4),      \* one bucket of 256
    Scn(1, 3, 255, 2, 1, 1, 8),      \* the middle bucket does not fit
    Scn(2, 3, 253, 2, 1, 1, 8),      \* the lowest bucket is one too many
    Scn(2, 3, 253, 2, 0, 0, 8),
    Scn(254, 2, 1, 1, 0, 0, 8),
    Scn(1, 2, 256, 1, 0, 0, 4),
    Scn(200, 2, 56, 1, 0, 0, 8),
    Scn(3, 2, 2, 1, 0, 0, 2),
    Scn(56, 1, 200, 2, 0, 0, 8),
    Scn(300, 10, 1, 1000, 0, 0, 50) } \* 300 pairs 10 times, 1 pair 1000 times

\* the r-th occurrence (from 0) of the j-th POS (from 0): the occurrences of
\* one POS under one key differ in attributes or value
ScenarioToken(j, r, nk) ==
  LET q == (j + (r \div 20)) % nk
  IN  Tok(<<12354 + (q \div 8), 12354 + (q % 8)>>,
          <<26408 + ((r \div 4) % 5)>>,
          1 + (j \div 16), j % 16, r, r % 4)

\* the input vector: group after group, inside a group one occurrence of
\* every POS of the group, then the next occurrence of every POS, ...
ScenarioTokens(sc) ==
  LET n1 == sc.c1 * sc.m1
      n2 == sc.c2 * sc.m2
      n3 == sc.c3 * sc.m3
  IN  [n \in 1..(n1 + n2 + n3) |->
         IF n <= n1
         THEN ScenarioToken((n - 1) % sc.c1, (n - 1) \div sc.c1, sc.nk)
         ELSE IF n <= n1 + n2
         THEN ScenarioToken(sc.c1 + ((n - n1 - 1) % sc.c2),
                            (n - n1 - 1) \div sc.c2, sc.nk)
         ELSE ScenarioToken(sc.c1 + sc.c2 + ((n - n1 - n2 - 1) % sc.c3),
                            (n - n1 - n2 - 1) \div sc.c3, sc.nk)]

(***************************************************************************)
(* The builder                                                             *)
(***************************************************************************)
\* SystemDictionaryBuilder(codec, file_codec): fresh builders, empty map
InitBuilder ==
  /\ pc = "ReadTokens"
  /\ key_info_list = <<>>
  /\ frequent_pos_ = <<>>
  /\ value_trie = EmptyTrie
  /\ key_trie = EmptyTrie
  /\ token_array = EmptyArray
  /\ sections = <<>>

Init ==
  /\ tokens \in SeqsUpTo(TokenUniverse, MaxTokens)
  /\ codec \in Codecs
  /\ InitBuilder

ReadTokens ==
  /\ pc = "ReadTokens"
  /\ IF InputAccepted(tokens)
     THEN /\ key_info_list' = ReadTokensResult(tokens)
          /\ pc' = "BuildFrequentPos"
     ELSE /\ key_info_list' = key_info_list
          /\ pc' = "aborted"
  /\ UNCHANGED <<tokens, codec, frequent_pos_, value_trie, key_trie,
                 token_array, sections>>

Next ==
  \/ ReadTokens
  \/ BuildFrequentPos
  \/ BuildValueTrie
  \/ BuildKeyTrie
  \/ SetIdForValue
  \/ SetIdForKey
  \/ SortTokenInfo
  \/ SetCostType
  \/ SetPosType
  \/ SetValueType
  \/ BuildTokenArray
  \/ WriteToStream

Spec == Init /\ [][Next]_vars

\* the builder with the production codec on the inputs with many POS
InitFreq ==
  /\ tokens \in {ScenarioTokens(sc) : sc \in Scenarios}
  /\ codec = "system"
  /\ InitBuilder

SpecFreq == InitFreq /\ [][Next]_vars

(***************************************************************************)
(* Properties                                                              *)
(***************************************************************************)
\* positions of BuildFromTokens at which ReadTokens has returned
AfterReadTokens ==
  pc \notin {"ReadTokens", "aborted"}

\* positions at which the TokenInfos still stand in the order of ReadTokens
BeforeSort ==
  pc \in {"BuildFrequentPos", "BuildValueTrie", "BuildKeyTrie", "SetIdForValue",
          "SetIdForKey", "SortTokenInfo"}

\* positions at which SortTokenInfo has returned
AfterSort ==
  pc \in {"SetCostType", "SetPosType", "SetValueType", "BuildTokenArray",
          "crashed", "done", "written"}

\* positions at which all three classifier passes have returned
AfterClassifiers == pc \in {"BuildTokenArray", "crashed", "done", "written"}

\* the ids of the KeyInfos are a permutation of 0..N-1
IdsArePermutation(kil) ==
  {kil[g].id_in_key_trie : g \in 1..Len(kil)} = 0..(Len(kil) - 1)

\* C1: once the token array is built from KeyInfos whose key-trie ids are a
\* permutation of 0..N-1, it holds exactly N+1 entries: entry i (from 0) is
\* EncodeTokens of the KeyInfo with id_in_key_trie = i and the last entry is
\* the termination flag; nothing is added before BuildTokenArray and Build
\* follows the N+1 Adds (an empty input gives the terminator alone).
C1_TokenArrayInKeyTrieIdOrder ==
  /\ (pc \notin {"crashed", "done", "written"}) =>
        (token_array.entries = <<>> /\ ~token_array.built)
  /\ (token_array.built /\ IdsArePermutation(key_info_list)) =>
        /\ Len(token_array.entries) = Len(key_info_list) + 1
        /\ \A g \in 1..Len(key_info_list) :
              token_array.entries[key_info_list[g].id_in_key_trie + 1]
                = EncodeTokens(tokens, key_info_list[g].tokens)
        /\ token_array.entries[Len(key_info_list) + 1] = TokensTerminationFlag
  /\ (pc \in {"done", "written"}) => token_array.built

\* C1 witness: a finished build of at least two keys whose key-trie ids do
\* not follow the order of the KeyInfo list
C1_Witness ==
  /\ pc = "done"
  /\ IdsArePermutation(key_info_list)
  /\ Len(key_info_list) >= 2
  /\ \E g \in 1..Len(key_info_list) : key_info_list[g].id_in_key_trie # g - 1

\* C2: ReadTokens on an accepted input yields KeyInfos (a) with strictly
\* increasing keys, (b) each non-empty and holding exactly the input tokens
\* with its key, every input token once overall, and (c) inside a KeyInfo
\* the tokens in input order (until SortTokenInfo reorders them).
C2_ReadTokensGroups ==
  AfterReadTokens =>
    /\ \A g \in 1..(Len(key_info_list) - 1) :
          StrLess(key_info_list[g].key, key_info_list[g + 1].key)
    /\ \A g \in 1..Len(key_info_list) :
          LET tis == key_info_list[g].tokens
              mine == {i \in 1..Len(tokens) : tokens[i].key = key_info_list[g].key}
          IN  /\ Len(tis) >= 1
              /\ {tis[k].token : k \in 1..Len(tis)} = mine
              /\ Len(tis) = Cardinality(mine)
              /\ BeforeSort =>
                   \A k \in 1..(Len(tis) - 1) : tis[k].token < tis[k + 1].token
    /\ \A i \in 1..Len(tokens) :
          \E g \in 1..Len(key_info_list) : key_info_list[g].key = tokens[i].key

\* C2 witness: ReadTokens has just grouped an input that was not in key
\* order and holds two tokens with the same key
C2_Witness ==
  /\ pc = "BuildFrequentPos"
  /\ Len(key_info_list) >= 2
  /\ \E g \in 1..Len(key_info_list) : Len(key_info_list[g].tokens) >= 2
  /\ \E i \in 1..(Len(tokens) - 1) : StrLess(tokens[i + 1].key, tokens[i].key)

\* number of input tokens of every combined POS that occurs in the input
InputMultiplicity(toks) ==
  LET pos == AsSeq([i \in 1..Len(toks) |-> GetCombinedPos(toks[i].lid, toks[i].rid)])
  IN  AsFcn([p \in {pos[i] : i \in 1..Len(toks)} |->
               Cardinality({i \in 1..Len(toks) : pos[i] = p})])

\* the POS of the buckets that are admitted when buckets are taken whole in
\* descending multiplicity until one does not fit: a bucket is reached and
\* fits iff the POS of its own and of all higher multiplicities are at most
\* 255 together
AdmittedPos(mult) ==
  {p \in DOMAIN mult :
     Cardinality({q \in DOMAIN mult : mult[q] >= mult[p]}) <= 255}

\* C3: after BuildFrequentPos the frequent-POS map has at most 255 entries
\* and holds exactly the POS of the buckets admitted whole in descending
\* multiplicity order up to the first bucket that does not fit (so exactly
\* the POS with at least the smallest admitted multiplicity, and nothing if
\* the highest bucket alone exceeds 255); the CHECK between the sizing and
\* the selection pass never fails.
C3_FrequentPosSelection ==
  /\ pc # "aborted"
  /\ Cardinality(DOMAIN frequent_pos_) <= 255
  /\ (pc \in {"ReadTokens", "BuildFrequentPos"}) => (DOMAIN frequent_pos_ = {})
  /\ (pc = "BuildValueTrie") =>
       LET mult == InputMultiplicity(tokens)
           top == {p \in DOMAIN mult : \A q \in DOMAIN mult : mult[q] <= mult[p]}
       IN  /\ DOMAIN frequent_pos_ = AdmittedPos(mult)
           /\ \A p \in DOMAIN frequent_pos_ :
                 \A q \in DOMAIN mult \ DOMAIN frequent_pos_ : mult[q] < mult[p]
           /\ (Cardinality(top) > 255) => (DOMAIN frequent_pos_ = {})

\* C3 witness: BuildFrequentPos has admitted a bucket, rejected the next one
\* and thereby left out a still lower bucket that would have fitted
C3_Witness ==
  /\ pc = "BuildValueTrie"
  /\ DOMAIN frequent_pos_ # {}
  /\ LET mult == InputMultiplicity(tokens)
         out == DOMAIN mult \ DOMAIN frequent_pos_
     IN  \E q \in out :
            /\ \E r \in out : mult[r] > mult[q]
            /\ Cardinality(DOMAIN frequent_pos_)
                 + Cardinality({r \in out : mult[r] = mult[q]}) <= 255

\* the input of scenario 6: 300 distinct (lid,rid) pairs 10 times each and
\* one further pair 1000 times
IsScenario6Input(toks) ==
  /\ Len(toks) = 4000
  /\ LET mult == InputMultiplicity(toks)
     IN  /\ Cardinality(DOMAIN mult) = 301
         /\ Cardinality({p \in DOMAIN mult : mult[p] = 10}) = 300
         /\ Cardinality({p \in DOMAIN mult : mult[p] = 1000}) = 1

\* the combined POS of the pair that occurs 1000 times
Scenario6BigPos(toks) ==
  LET mult == InputMultiplicity(toks) IN CHOOSE p \in DOMAIN mult : mult[p] = 1000

\* C4 as stated: on the input of scenario 6 the frequent-POS map has exactly
\* 255 entries, the pair that occurs 1000 times among them.
C4_AsStated ==
  (pc = "BuildValueTrie" /\ IsScenario6Input(tokens)) =>
     /\ Cardinality(DOMAIN frequent_pos_) = 255
     /\ Scenario6BigPos(tokens) \in DOMAIN frequent_pos_

\* C4 amended: on the input of scenario 6 the frequent-POS map has exactly
\* one entry, the pair that occurs 1000 times, with dense id 0 (the bucket of
\* the 300 pairs does not fit beside it and is rejected whole).
C4_OnlyTheBigPair ==
  (pc = "BuildValueTrie" /\ IsScenario6Input(tokens)) =>
     /\ DOMAIN frequent_pos_ = {Scenario6BigPos(tokens)}
     /\ frequent_pos_[Scenario6BigPos(tokens)] = 0

\* C4 witness: BuildFrequentPos has run on the input of scenario 6
C4_Witness ==
  /\ pc = "BuildValueTrie"
  /\ IsScenario6Input(tokens)
  /\ DOMAIN frequent_pos_ # {}

\* C5: the dense ids of the k selected POS are exactly 0..k-1, ascending with
\* the combined POS, and the written side table has 256 slots, slot d holding
\* the POS with dense id d for d < k and zero for d >= k.
C5_DenseIdsAscending ==
  /\ (pc \in {"BuildValueTrie", "written"}) =>
       /\ {frequent_pos_[p] : p \in DOMAIN frequent_pos_}
            = 0..(Cardinality(DOMAIN frequent_pos_) - 1)
       /\ \A p, q \in DOMAIN frequent_pos_ :
             (p < q) => (frequent_pos_[p] < frequent_pos_[q])
  /\ (pc = "written") =>
       LET table == sections[4].image
           k == Cardinality(DOMAIN frequent_pos_)
       IN  /\ sections[4].name = "pos"
           /\ Len(table) = 256
           /\ \A p \in DOMAIN frequent_pos_ : table[frequent_pos_[p] + 1] = p
           /\ \A d \in k..255 : table[d + 1] = 0

\* C5 witness: a side table has been written for several but fewer than 255
\* frequent POS
C5_Witness ==
  /\ pc = "written"
  /\ Cardinality(DOMAIN frequent_pos_) >= 2
  /\ Cardinality(DOMAIN frequent_pos_) < 255

\* the order of the sort as the specification words it
C6_RanksBefore(toks, a, b) ==
  \/ toks[a.token].lid > toks[b.token].lid
  \/ /\ toks[a.token].lid = toks[b.token].lid
     /\ \/ toks[a.token].rid > toks[b.token].rid
        \/ /\ toks[a.token].rid = toks[b.token].rid
           /\ \/ a.id_in_value_trie < b.id_in_value_trie
              \/ /\ a.id_in_value_trie = b.id_in_value_trie
                 /\ toks[a.token].attributes < toks[b.token].attributes

\* C6: from the return of SortTokenInfo to the encoding in BuildTokenArray
\* no token of a KeyInfo is ranked strictly before its predecessor, and the
\* KeyInfo still holds exactly the input tokens with its key, each once.
C6_TokensSortedInKeyInfo ==
  AfterSort =>
    \A g \in 1..Len(key_info_list) :
       LET tis == key_info_list[g].tokens
           mine == {i \in 1..Len(tokens) : tokens[i].key = key_info_list[g].key}
       IN  /\ \A k \in 1..(Len(tis) - 1) : ~C6_RanksBefore(tokens, tis[k + 1], tis[k])
           /\ {tis[k].token : k \in 1..Len(tis)} = mine
           /\ Len(tis) = Cardinality(mine)

\* C6 witness: BuildTokenArray is about to encode a KeyInfo whose tokens the
\* sort has moved out of their input order
C6_Witness ==
  /\ pc = "BuildTokenArray"
  /\ \E g \in 1..Len(key_info_list) :
        LET tis == key_info_list[g].tokens
        IN  /\ Len(tis) >= 3
            /\ \E k \in 1..(Len(tis) - 1) : tis[k].token > tis[k + 1].token

\* C7: once SetPosType has run, a token is SAME_AS_PREV_POS iff it has a
\* predecessor in its KeyInfo with the same combined POS; otherwise it is
\* FREQUENT_POS with the dense id of the map iff its POS is in the map, and
\* DEFAULT_POS otherwise; the first token is never SAME_AS_PREV_POS.
C7_PosType ==
  (pc \in {"SetValueType", "BuildTokenArray", "crashed", "done", "written"}) =>
    \A g \in 1..Len(key_info_list) :
       LET tis == key_info_list[g].tokens
       IN  \A i \in 1..Len(tis) :
              LET pos == GetCombinedPos(tokens[tis[i].token].lid, tokens[tis[i].token].rid)
                  same == /\ i >= 2
                          /\ GetCombinedPos(tokens[tis[i - 1].token].lid,
                                            tokens[tis[i - 1].token].rid) = pos
              IN  /\ (tis[i].pos_type = "SAME_AS_PREV_POS") <=> same
                  /\ (i = 1) => (tis[i].pos_type # "SAME_AS_PREV_POS")
                  /\ (~same /\ pos \in DOMAIN frequent_pos_) =>
                        /\ tis[i].pos_type = "FREQUENT_POS"
                        /\ tis[i].id_in_frequent_pos_map = frequent_pos_[pos]
                  /\ (~same /\ pos \notin DOMAIN frequent_pos_) =>
                        tis[i].pos_type = "DEFAULT_POS"

\* C7 witness: a finished build with a SAME_AS_PREV_POS token whose POS is
\* frequent, a FREQUENT_POS token and a DEFAULT_POS token
C7_Witness ==
  /\ pc = "done"
  /\ LET all == AllTokenInfos(key_info_list)
     IN  /\ \E i \in 1..Len(all) :
               /\ all[i].pos_type = "SAME_AS_PREV_POS"
               /\ PosOf(tokens, all[i]) \in DOMAIN frequent_pos_
         /\ \E i \in 1..Len(all) : all[i].pos_type = "FREQUENT_POS"
         /\ \E i \in 1..Len(all) : all[i].pos_type = "DEFAULT_POS"

\* the initial classification of a token as the specification words it
InitialValueClass(t) ==
  IF t.value = t.key THEN "AS_IS_HIRAGANA"
  ELSE IF t.value = HiraganaToKatakana(t.key) THEN "AS_IS_KATAKANA"
  ELSE "DEFAULT_VALUE"

\* C8: after the classifier passes a token is SAME_AS_PREV_VALUE iff it has a
\* predecessor in its KeyInfo with the identical value and was initially
\* DEFAULT_VALUE; a token initially AS_IS_HIRAGANA or AS_IS_KATAKANA keeps
\* that value_type through every pass; the first token is never
\* SAME_AS_PREV_VALUE.
C8_ValueType ==
  AfterReadTokens =>
    \A g \in 1..Len(key_info_list) :
       LET tis == key_info_list[g].tokens
       IN  \A i \in 1..Len(tis) :
              LET init == InitialValueClass(tokens[tis[i].token])
                  repeats == /\ i >= 2
                             /\ tokens[tis[i].token].value = tokens[tis[i - 1].token].value
              IN  /\ (init # "DEFAULT_VALUE") => (tis[i].value_type = init)
                  /\ AfterClassifiers =>
                       ((tis[i].value_type = "SAME_AS_PREV_VALUE")
                          <=> (repeats /\ init = "DEFAULT_VALUE"))
                  /\ (i = 1) => (tis[i].value_type # "SAME_AS_PREV_VALUE")
                  /\ (init = "DEFAULT_VALUE" /\ ~(AfterClassifiers /\ repeats)) =>
                       (tis[i].value_type = "DEFAULT_VALUE")

\* C8 witness: a finished build with a SAME_AS_PREV_VALUE token and an AS_IS
\* token in one KeyInfo
C8_Witness ==
  /\ pc = "done"
  /\ \E g \in 1..Len(key_info_list) :
        LET tis == key_info_list[g].tokens
        IN  /\ \E i \in 1..Len(tis) : tis[i].value_type = "SAME_AS_PREV_VALUE"
            /\ \E i \in 1..Len(tis) : tis[i].value_type = "AS_IS_HIRAGANA"

\* C9: once SetCostType has run, a token is CAN_USE_SMALL_ENCODING iff no two
\* tokens of its KeyInfo have the same combined POS and its key has at least
\* 6 characters; so the tokens of a KeyInfo agree on cost_type.
C9_CostType ==
  (pc \in {"SetPosType", "SetValueType", "BuildTokenArray", "crashed", "done",
           "written"}) =>
    \A g \in 1..Len(key_info_list) :
       LET tis == key_info_list[g].tokens
           homonyms == \E i, j \in 1..Len(tis) :
                          /\ i # j
                          /\ tokens[tis[i].token].lid = tokens[tis[j].token].lid
                          /\ tokens[tis[i].token].rid = tokens[tis[j].token].rid
       IN  \A i \in 1..Len(tis) :
              /\ (tis[i].cost_type = "CAN_USE_SMALL_ENCODING")
                   <=> (~homonyms /\ Len(tokens[tis[i].token].key) >= 6)
              /\ tis[i].cost_type \in {"CAN_USE_SMALL_ENCODING", "DEFAULT_COST"}
              /\ tis[i].cost_type = tis[1].cost_type

\* C9 witness: a finished build with a KeyInfo of several tokens that all
\* can use the small cost encoding
C9_Witness ==
  /\ pc = "done"
  /\ \E g \in 1..Len(key_info_list) :
        LET tis == key_info_list[g].tokens
        IN  /\ Len(tis) >= 2
            /\ \A i \in 1..Len(tis) : tis[i].cost_type = "CAN_USE_SMALL_ENCODING"

\* the Add calls in the log of a trie builder
AddCalls(trie) == SelectSeq(trie.log, LAMBDA c : c[1] = "Add")

\* C10: the words added to the value trie are exactly the encoded values of
\* the input tokens initially classified DEFAULT_VALUE, one Add per such
\* token and none for an AS_IS token; when the token array is emitted every
\* DEFAULT_VALUE or SAME_AS_PREV_VALUE token carries the id the built trie
\* gives to its own encoded value.
C10_ValueTrieContents ==
  LET stored == {i \in 1..Len(tokens) : InitialValueClass(tokens[i]) = "DEFAULT_VALUE"}
  IN  /\ (pc \in {"ReadTokens", "BuildFrequentPos", "BuildValueTrie", "aborted"}) =>
            (value_trie.added = {} /\ value_trie.log = <<>>)
      /\ (pc \notin {"ReadTokens", "BuildFrequentPos", "BuildValueTrie", "aborted"}) =>
            /\ value_trie.added = {EncodeValue(codec, tokens[i].value) : i \in stored}
            /\ Len(AddCalls(value_trie)) = Cardinality(stored)
            /\ \A k \in 1..Len(AddCalls(value_trie)) :
                  AddCalls(value_trie)[k][2] \in
                    {EncodeValue(codec, tokens[i].value) : i \in stored}
            /\ value_trie.built
      /\ AfterClassifiers =>
            \A g \in 1..Len(key_info_list) :
               \A i \in 1..Len(key_info_list[g].tokens) :
                  LET ti == key_info_list[g].tokens[i]
                      word == EncodeValue(codec, tokens[ti.token].value)
                  IN  (ti.value_type \in {"DEFAULT_VALUE", "SAME_AS_PREV_VALUE"}) =>
                         /\ word \in value_trie.added
                         /\ ti.id_in_value_trie = value_trie.ids[word]
                         /\ ti.id_in_value_trie >= 0

\* C10 witness: the token array is about to be emitted for an input with an
\* AS_IS token, a DEFAULT_VALUE token and a SAME_AS_PREV_VALUE token
C10_Witness ==
  /\ pc = "BuildTokenArray"
  /\ LET all == AllTokenInfos(key_info_list)
     IN  /\ \E i \in 1..Len(all) : IsAsIs(all[i])
         /\ \E i \in 1..Len(all) : all[i].value_type = "DEFAULT_VALUE"
         /\ \E i \in 1..Len(all) : all[i].value_type = "SAME_AS_PREV_VALUE"

\* positions at which BuildTokenArray has run its loops
AfterBuildTokenArray == pc \in {"crashed", "done", "written"}

\* C11: when the key-trie ids of the KeyInfos are not a permutation of
\* 0..N-1, BuildTokenArray aborts before any entry is encoded or added: the
\* loops never run on such ids, so no run gets past them with a duplicated or
\* out-of-range id, none dies on an unfilled slot, and the token array has
\* entries only when the ids are a permutation.
C11_AbortsOnNonPermutation ==
  /\ AfterBuildTokenArray => IdsArePermutation(key_info_list)
  /\ pc # "crashed"
  /\ Len(token_array.entries) > 0 => IdsArePermutation(key_info_list)

\* the Tokens of a KeyInfoList in the order EncodeTokens receives them
C12_TokenOrder(toks, kil) ==
  [g \in 1..Len(kil) |->
     [i \in 1..Len(kil[g].tokens) |-> toks[kil[g].tokens[i].token]]]

C13_CallOrder(trie) ==
  LET log == trie.log
  IN  /\ Cardinality({i \in 1..Len(log) : log[i][1] = "Build"}) <= 1
      /\ \A i \in 1..Len(log) :
            /\ log[i][1] = "Add" => \A j \in 1..(i - 1) : log[j][1] # "Build"
            /\ log[i][1] = "GetId" => \E j \in 1..(i - 1) : log[j][1] = "Build"

\* every GetId of the log asks for a word that an earlier Add has inserted
C13_GetIdOnlyOfAdded(trie) ==
  LET log == trie.log
  IN  \A i \in 1..Len(log) :
        log[i][1] = "GetId" =>
          \E j \in 1..(i - 1) : log[j][1] = "Add" /\ log[j][2] = log[i][2]

\* C13: in every run the builder keeps the protocol of both trie builders:
\* the Add calls precede the single Build, the GetId calls follow it, and
\* GetId is called only with a word that was added to that trie before.
C13_TrieBuilderProtocol ==
  /\ C13_CallOrder(value_trie) /\ C13_CallOrder(key_trie)
  /\ C13_GetIdOnlyOfAdded(value_trie) /\ C13_GetIdOnlyOfAdded(key_trie)
====
